---- MODULE Spec2Model ----
(***************************************************************************)
(* Model of the consul-k8s operator charm: the reconcile cycle             *)
(* (ConsulCharm._configure), the port resolution and exposure planning,    *)
(* the endpoint computation and the publication of endpoints on the        *)
(* consul-cluster relation, in its two variants:                           *)
(*   "split"  : src/charm/src/charm.py (internal/external endpoint set)    *)
(*   "legacy" : src/src/charm.py (flat server_join_addresses list)         *)
(* and the Kubernetes Service handler of k8s_resource_handlers.py.         *)
(* Every hook is one atomic action: the charm object is constructed        *)
(* (__init__: get_consul_ports, open_ports) and the handler runs to        *)
(* completion.  `hook` names the handler of the last step and `log` lists  *)
(* the side effects of that handler in the order the code performs them.   *)
(***************************************************************************)
EXTENDS Integers, Sequences, FiniteSets, TLC

(***************************************************************************)
(* Bounds of the model.                                                    *)
(***************************************************************************)
MaxRelations == 1
MaxRelIds == 2
MaxEnvChanges == 1
MaxUnits == 2
MaxPods == 3
MaxIngress == 2

(***************************************************************************)
(* Program constants.                                                      *)
(***************************************************************************)
HttpPort == 8500
SerfLanPort == 8301
ServerPort == 8300
Unsupported == -1
NoPort == 0

CONSUL_CONFIG_PATH == "/consul/config/server.json"
CONSUL_DATA_DIR == "/consul/data"
name == "consul"

(***************************************************************************)
(* Python values.  PyNone stands for None / False / an unset option; a     *)
(* string is falsy only when it is empty.  An optional value is a record   *)
(* [some |-> FALSE] (None) or [some |-> TRUE, v |-> value].                *)
(***************************************************************************)
PyNone == "<None>"
PyTrue == "True"
Truthy(v) == v # PyNone /\ v # ""
None == [some |-> FALSE]
Some(x) == [some |-> TRUE, v |-> x]

(***************************************************************************)
(* The environment's input domains.                                        *)
(***************************************************************************)
AppNames == {"consul-k8s"}
ModelNames == {"test-model"}
Datacenters == {"dc1", "test-dc"}
HostIPs == {"10.10.0.10"}
ChangeErrors == {"cannot perform the following tasks: Start service consul",
                 "service start attempt: exited quickly with code 1"}
Variants == {"split", "legacy"}

DefaultConfig ==
    [datacenter |-> "dc1", expose |-> PyNone, serflan_node_port |-> 30501]
\* The configurations the operator may set on the split charm: another
\* datacenter, every value of expose-gossip-and-rpc-ports, and under the two
\* exposed modes the node ports at and beyond the ends of the valid range.
SplitConfigs ==
    [datacenter : Datacenters, expose : {PyNone},
     serflan_node_port : {DefaultConfig.serflan_node_port}]
    \cup [datacenter : {DefaultConfig.datacenter}, expose : {"false", "invalid"},
          serflan_node_port : {DefaultConfig.serflan_node_port}]
    \cup [datacenter : {DefaultConfig.datacenter}, expose : {"nodeport"},
          serflan_node_port : {29999, 30000}]
    \cup [datacenter : {DefaultConfig.datacenter}, expose : {"loadbalancer"},
          serflan_node_port : {32767, 32768}]
\* On the legacy charm expose-gossip-and-rpc-ports is a boolean.
LegacyConfigs ==
    [datacenter : Datacenters, expose : {PyNone},
     serflan_node_port : {DefaultConfig.serflan_node_port}]
    \cup [datacenter : {DefaultConfig.datacenter}, expose : {PyTrue},
          serflan_node_port : {DefaultConfig.serflan_node_port, 29999}]
Configs == SplitConfigs \cup LegacyConfigs
ConfigsOf(v) == IF v = "split" THEN SplitConfigs ELSE LegacyConfigs

\* str(port) for the ports that occur, computed once.
KnownPorts ==
    {HttpPort, SerfLanPort}
    \cup {c.serflan_node_port : c \in Configs \cup {DefaultConfig}}
PortStr == [p \in KnownPorts |-> ToString(p)]
str(port) == PortStr[port]

(***************************************************************************)
(* json.dumps / json.loads on the values the charm encodes.                *)
(***************************************************************************)
json_str(s) == "\"" \o s \o "\""

RECURSIVE json_items(_)
json_items(xs) ==
    IF xs = <<>> THEN ""
    ELSE IF Len(xs) = 1 THEN json_str(Head(xs))
    ELSE json_str(Head(xs)) \o ", " \o json_items(Tail(xs))

json_list(xs) == "[" \o json_items(xs) \o "]"
json_null == "null"
json_opt_list(o) == IF o.some THEN json_list(o.v) ELSE json_null
json_opt_str(o) == IF o.some THEN json_str(o.v) ELSE json_null

\* A JSON text file holding a document, as json.dumps(doc, indent=n) writes it.
json_dumps(doc, indent) == [fmt |-> "json", indent |-> indent, doc |-> doc]
json_loads(text) == text.doc

(***************************************************************************)
(* ConsulCharm.get_consul_ports                                            *)
(***************************************************************************)
get_consul_ports(cfg) ==
    [dns |-> Unsupported, http |-> HttpPort, https |-> Unsupported,
     grpc |-> Unsupported, grpc_tls |-> Unsupported,
     serf_lan |-> IF Truthy(cfg.expose) THEN cfg.serflan_node_port
                  ELSE SerfLanPort,
     serf_wan |-> Unsupported, server |-> ServerPort,
     sidecar_min_port |-> NoPort, sidecar_max_port |-> NoPort,
     expose_min_port |-> NoPort, expose_max_port |-> NoPort]

(***************************************************************************)
(* The state.                                                              *)
(***************************************************************************)
VARIABLES
    variant,        \* which charm is deployed: "split" or "legacy"
    app_name,       \* self.model.app.name
    model_name,     \* self.model.name
    config,         \* self.config
    nchanges,       \* number of changes the environment has made so far
    planned_units,  \* self.model.app.planned_units()
    leader,         \* self.unit.is_leader()
    can_connect,    \* self.workload.can_connect()
    disk,           \* the file at CONSUL_CONFIG_PATH: NoFile or its text
    plan,           \* the services of the workload's Pebble plan
    status,         \* [unit, app]: the status of the unit and of the app
    unit_ports,     \* the ports the unit has declared (unit.set_ports)
    rels,           \* ids of the existing consul-cluster relations
    databag,        \* databag[r]: this app's databag on relation r
    k8s_service,    \* the Service object of KubernetesServiceHandler
    hook,           \* the handler run by the last step ("none": environment)
    log,            \* the side effects of that handler, in order
    call,           \* the last direct call of a function (name, inputs, result)
                    \* or the last certificate event delivered (name, data)
    prev,           \* the build call before it, when there is one
    api,            \* what the Kubernetes API answers to a get of the Service
    lb_cache,       \* functools.cache of get_loadbalancer_ip in this hook
    handler_type,   \* _service_type of the handler constructed in this hook
    cert_rel,       \* whether the certificates relation exists
    cert_bag,       \* this app's databag on the certificates relation
    cert_files,     \* the files under /consul/config/certs in the workload
    deferred        \* the events deferred for redelivery

(***************************************************************************)
(* ConsulConfigBuilder.__init__ / build.  tls_certificates is an optional  *)
(* dict; `tls_certificates or {}` and dict.get(key, default) are kept.     *)
(***************************************************************************)
EmptyDict == [k \in {} |-> ""]
dict_get(d, k, default) == IF k \in DOMAIN d THEN d[k] ELSE default
or_empty(o) == IF o.some THEN o.v ELSE EmptyDict

\* Ports(): the PortSet of the field defaults
PortsDefaults ==
    [dns |-> 8600, http |-> 8500, https |-> -1, grpc |-> -1, grpc_tls |-> -1,
     serf_lan |-> 8301, serf_wan |-> 8302, server |-> 8300,
     sidecar_min_port |-> 21000, sidecar_max_port |-> 21255,
     expose_min_port |-> 21500, expose_max_port |-> 21755]

\* Faulty variant: the document serves DNS on the default port.
build_ports_serving_dns(ports) ==
    [dns |-> PortsDefaults.dns, http |-> ports.http, https |-> ports.https,
     grpc |-> ports.grpc, grpc_tls |-> ports.grpc_tls,
     serf_lan |-> ports.serf_lan, serf_wan |-> ports.serf_wan,
     server |-> ports.server]

\* The "ports" entry of the document
build_ports(ports) ==
    [dns |-> ports.dns, http |-> ports.http, https |-> ports.https,
     grpc |-> ports.grpc, grpc_tls |-> ports.grpc_tls,
     serf_lan |-> ports.serf_lan, serf_wan |-> ports.serf_wan,
     server |-> ports.server]

\* Faulty variant: the number of servers to expect is read from the model
\* when the document is built, not from the builder's input.
build_reading_planned_units(ports, datacenter, number_of_units, retry_join, tls_certificates) ==
    LET tls == or_empty(tls_certificates) IN
    [bind_addr |-> "0.0.0.0",
     bootstrap_expect |-> planned_units,
     client_addr |-> "0.0.0.0",
     connect |-> [enabled |-> FALSE],
     datacenter |-> datacenter,
     data_dir |-> CONSUL_DATA_DIR,
     ports |-> build_ports(ports),
     retry_join |-> retry_join,
     server |-> TRUE,
     tls |-> [defaults |->
                [verify_incoming |-> TRUE, verify_outgoing |-> TRUE,
                 ca_file |-> dict_get(tls, "ca_certificate_path",
                                      "/consul/config/certs/ca.pem"),
                 cert_file |-> dict_get(tls, "server_certificate_path",
                                        "/consul/config/certs/server-cert.pem"),
                 key_file |-> dict_get(tls, "server_key_path",
                                       "/consul/config/certs/server-key.pem")]],
     ui_config |-> [enabled |-> FALSE]]

build(ports, datacenter, number_of_units, retry_join, tls_certificates) ==
    LET tls == or_empty(tls_certificates) IN
    [bind_addr |-> "0.0.0.0",
     bootstrap_expect |-> number_of_units,
     client_addr |-> "0.0.0.0",
     connect |-> [enabled |-> FALSE],
     datacenter |-> datacenter,
     data_dir |-> CONSUL_DATA_DIR,
     ports |-> build_ports(ports),
     retry_join |-> retry_join,
     server |-> TRUE,
     tls |-> [defaults |->
                [verify_incoming |-> TRUE, verify_outgoing |-> TRUE,
                 ca_file |-> dict_get(tls, "ca_certificate_path",
                                      "/consul/config/certs/ca.pem"),
                 cert_file |-> dict_get(tls, "server_certificate_path",
                                        "/consul/config/certs/server-cert.pem"),
                 key_file |-> dict_get(tls, "server_key_path",
                                       "/consul/config/certs/server-key.pem")]],
     ui_config |-> [enabled |-> FALSE]]

core_vars == <<variant, app_name, model_name, config, nchanges, planned_units,
               leader, can_connect, disk, plan, status, unit_ports, rels,
               databag, k8s_service, hook, log>>
fn_vars == <<call, prev>>
lb_vars == <<api, lb_cache, handler_type>>
cert_vars == <<cert_rel, cert_bag, cert_files, deferred>>
ext_vars == <<fn_vars, lb_vars, cert_vars>>
vars == <<core_vars, ext_vars>>

NoFile == [fmt |-> "absent"]
RelIds == 1..MaxRelIds

\* ops.model statuses
MaintenanceStatus == [name |-> "maintenance", message |-> ""]
UnknownStatus == [name |-> "unknown", message |-> ""]
ActiveStatus == [name |-> "active", message |-> ""]
WaitingStatus(msg) == [name |-> "waiting", message |-> msg]
BlockedStatus(msg) == [name |-> "blocked", message |-> msg]

\* The keys of the application databag, in both variants of the interface.
Absent == "<absent>"
LegacyKeys == {"datacenter", "server_join_addresses"}
SplitKeys == {"datacenter", "internal_gossip_endpoints",
              "external_gossip_endpoints", "internal_http_endpoint",
              "external_http_endpoint",
              "external_gossip_healthcheck_endpoints"}
Keys == LegacyKeys \cup SplitKeys
EmptyBag == [k \in Keys |-> Absent]
\* dict.update and item assignment on a databag.  Relation data holds no
\* empty value: assigning "" removes the key.
bag_update(bag, items) ==
    [k \in Keys |->
        IF k \in DOMAIN items
        THEN (IF items[k] = "" THEN Absent ELSE items[k])
        ELSE bag[k]]

(***************************************************************************)
(* Charm construction: self.ports and open_ports.                          *)
(***************************************************************************)
self_ports == get_consul_ports(config)

Port(protocol, port) == [protocol |-> protocol, port |-> port]

ServicePort(port, nm, protocol, nodePort, targetPort) ==
    [port |-> port, name |-> nm, protocol |-> protocol,
     nodePort |-> nodePort, targetPort |-> targetPort]

juju_port_name(port, proto) == "juju-" \o str(port) \o "-" \o proto

node_ports ==
    << ServicePort(self_ports.serf_lan, juju_port_name(self_ports.serf_lan, "tcp"),
                   "TCP", Some(self_ports.serf_lan), None),
       ServicePort(self_ports.serf_lan, juju_port_name(self_ports.serf_lan, "udp"),
                   "UDP", Some(self_ports.serf_lan), None),
       ServicePort(self_ports.http, juju_port_name(self_ports.http, "tcp"),
                   "TCP", None, Some(self_ports.http)) >>

\* The result of open_ports: the ports declared on the unit afterwards and
\* the returned KubernetesServicePatch (None when ports are only declared).
open_ports ==
    IF ~Truthy(config.expose)
    THEN [unit_ports |-> {Port("tcp", self_ports.serf_lan),
                          Port("udp", self_ports.serf_lan),
                          Port("tcp", self_ports.http)},
          service_patch |-> None]
    ELSE [unit_ports |-> unit_ports,
          service_patch |-> Some([ports |-> node_ports,
                                  service_name |-> app_name,
                                  service_type |-> "NodePort"])]

\* ConsulCharm.__init__: self.ports and self.service_patch are self_ports and
\* open_ports.service_patch; the declared ports are kept by the controller.
Construct == unit_ports' = open_ports.unit_ports

(***************************************************************************)
(* Endpoint computation.                                                   *)
(***************************************************************************)
host_port(host, port) == host \o ":" \o str(port)
svc_dns(app, model) == app \o "." \o model \o ".svc"

\* A pod as the pod listing returns it: status may be None, hostIP may be None.
NoStatusPod == [status |-> None]
StatusPod(ip) == [status |-> Some([hostIP |-> ip])]
\* The answers of the pod listing in the hooks: no pod, a pod without status,
\* a pod without host IP, a pod on a node, two pods on the same node.
PodLists ==
    {<<>>, <<NoStatusPod>>, <<StatusPod(None)>>}
    \cup {<<StatusPod(Some(ip))>> : ip \in HostIPs}
    \cup {<<StatusPod(Some(ip)), StatusPod(Some(ip))>> : ip \in HostIPs}

\* All the orders in which a set may be iterated.
SetToSeqs(S) ==
    {q \in [1..Cardinality(S) -> S] : \A i, j \in 1..Cardinality(S) : q[i] = q[j] => i = j}

_get_hostips_for_consul_service(pods) ==
    {pods[i].status.v.hostIP.v :
        i \in {j \in 1..Len(pods) : /\ pods[j].status.some
                                    /\ pods[j].status.v.hostIP.some}}

\* What the pod listing answers when it is queried in a hook: the pods, and
\* the order in which the resulting set of host IPs is iterated.  NoQuery when
\* the hook does not query it.
NoQuery == [pods |-> <<>>, ips |-> <<>>]
PodQueries ==
    UNION {{[pods |-> pods, ips |-> ips] :
                ips \in SetToSeqs(_get_hostips_for_consul_service(pods))} :
           pods \in PodLists}

_get_internal_join_addresses ==
    << host_port(svc_dns(app_name, model_name), self_ports.serf_lan) >>

\* Faulty variant: the addresses carry the default gossip port.
_get_external_join_addresses_default_port(q) ==
    IF Truthy(config.expose)
    THEN [value |-> Some([i \in 1..Len(q.ips) |-> host_port(q.ips[i], SerfLanPort)]),
          queried |-> TRUE]
    ELSE [value |-> None, queried |-> FALSE]

\* [value, queried]: the addresses, and whether the pod listing was queried.
_get_external_join_addresses(q) ==
    IF Truthy(config.expose)
    THEN [value |-> Some([i \in 1..Len(q.ips) |->
                             host_port(q.ips[i], self_ports.serf_lan)]),
          queried |-> TRUE]
    ELSE [value |-> None, queried |-> FALSE]

_get_internal_http_endpoint ==
    host_port(svc_dns(app_name, model_name), self_ports.http)

_get_exernal_http_endpoint == None

\* Faulty variant: the cluster-internal address whatever the use.
_get_join_addesses_internal_only(internal_use, q) ==
    [value |-> << host_port(svc_dns(app_name, model_name), self_ports.serf_lan) >>,
     queried |-> FALSE]

\* Legacy variant: one flat list.
_get_join_addesses(internal_use, q) ==
    IF Truthy(config.expose) /\ ~internal_use
    THEN [value |-> [i \in 1..Len(q.ips) |->
                        host_port(q.ips[i], self_ports.serf_lan)],
          queried |-> TRUE]
    ELSE [value |-> << host_port(svc_dns(app_name, model_name),
                                 self_ports.serf_lan) >>,
          queried |-> FALSE]

(***************************************************************************)
(* Publication on the consul-cluster relation.  `relation` is None (all    *)
(* related applications) or Some(r).                                       *)
(***************************************************************************)
\* Faulty variant: a request on one relation is answered on all of them.
write_bags_to_all(relation, items) ==
    [r \in RelIds |->
        IF r \in rels THEN bag_update(databag[r], items) ELSE databag[r]]

write_bags(relation, items) ==
    [r \in RelIds |->
        IF (relation.some /\ relation.v = r) \/ (~relation.some /\ r \in rels)
        THEN bag_update(databag[r], items)
        ELSE databag[r]]

\* Faulty variant: no leadership check.
set_cluster_config_by_any_unit(relation, datacenter, server_join_addresses) ==
    write_bags(relation,
               [datacenter |-> datacenter,
                server_join_addresses |-> json_list(server_join_addresses)])

\* ConsulConfigProvider.set_cluster_config (legacy interface)
set_cluster_config(relation, datacenter, server_join_addresses) ==
    IF ~leader
    THEN databag
    ELSE write_bags(relation,
                    [datacenter |-> datacenter,
                     server_join_addresses |-> json_list(server_join_addresses)])

\* ConsulServiceProvider.set_cluster_endpoints (split interface)
set_cluster_endpoints(relation, datacenter, internal_gossip_endpoints, external_gossip_endpoints, internal_http_endpoint, external_http_endpoint) ==
    IF ~leader
    THEN databag
    ELSE write_bags(relation,
            [datacenter |-> datacenter,
             internal_gossip_endpoints |-> json_list(internal_gossip_endpoints),
             external_gossip_endpoints |-> json_opt_list(external_gossip_endpoints),
             internal_http_endpoint |-> json_str(internal_http_endpoint),
             external_http_endpoint |-> json_opt_str(external_http_endpoint),
             external_gossip_healthcheck_endpoints |-> json_null])

\* [databag, effects]: the databags afterwards and the calls made, in order.
_set_endpoints_on_related_apps(relation, q) ==
    LET external == _get_external_join_addresses(q) IN
    [databag |-> set_cluster_endpoints(relation, config.datacenter,
                                       _get_internal_join_addresses,
                                       external.value,
                                       _get_internal_http_endpoint,
                                       _get_exernal_http_endpoint),
     effects |-> (IF external.queried THEN <<"list_pods">> ELSE <<>>)
                 \o <<"publish">>]

_set_config_on_related_apps(relation, q) ==
    LET server_addresses == _get_join_addesses(FALSE, q) IN
    [databag |-> set_cluster_config(relation, config.datacenter,
                                    server_addresses.value),
     effects |-> (IF server_addresses.queried THEN <<"list_pods">> ELSE <<>>)
                 \o <<"publish">>]

publish(relation, q) ==
    IF variant = "split"
    THEN _set_endpoints_on_related_apps(relation, q)
    ELSE _set_config_on_related_apps(relation, q)

\* The pod-listing answers a hook may get when it publishes.
QueriesOfHook ==
    IF Truthy(config.expose)
    THEN PodQueries
    ELSE {NoQuery}

(***************************************************************************)
(* The reconcile cycle.                                                    *)
(***************************************************************************)
_update_status(st) ==
    [unit |-> st, app |-> IF leader THEN st ELSE status.app]

_pebble_layer ==
    [summary |-> "consul layer",
     description |-> "pebble config layer for the consul",
     services |-> [n \in {name} |->
                      [override |-> "replace", summary |-> "consul",
                       command |-> "consul agent -config-file "
                                   \o CONSUL_CONFIG_PATH,
                       startup |-> "enabled"]]]

\* Container.add_layer(name, layer, combine=True) on the plan's services
add_layer(services, layer) ==
    [n \in DOMAIN services \cup DOMAIN layer.services |->
        IF n \in DOMAIN layer.services THEN layer.services[n] ELSE services[n]]

\* A file that pull cannot read (pebble.Error) and a file that is not JSON.
UnreadableFile == [fmt |-> "unreadable"]
CorruptFile == [fmt |-> "corrupt"]

\* json.loads raises JSONDecodeError, which the except clause
\* (FileNotFoundError, Error) of the property does not catch.
_running_consul_config_raises == can_connect /\ disk.fmt = "corrupt"

\* The value of the property when it returns one.
_running_consul_config ==
    IF ~can_connect THEN EmptyDict
    ELSE IF disk.fmt \in {"absent", "unreadable", "corrupt"} THEN EmptyDict
    ELSE json_loads(disk)

\* Faulty variant: the certificate and the key paths are exchanged.
tls_certificates_exchanged ==
    [ca_certificate_path |-> "/consul/config/certs/ca.pem",
     server_certificate_path |-> "/consul/config/certs/server-key.pem",
     server_key_path |-> "/consul/config/certs/server-cert.pem"]

\* The tls_certificates dict of _update_consul_config (split variant)
tls_certificates ==
    [ca_certificate_path |-> "/consul/config/certs/ca.pem",
     server_certificate_path |-> "/consul/config/certs/server-cert.pem",
     server_key_path |-> "/consul/config/certs/server-key.pem"]

\* Faulty variant: the server joins through the node-port addresses.
consul_config_joining_host_ips ==
    build(self_ports, config.datacenter, planned_units,
          IF Truthy(config.expose)
          THEN [i \in 1..Cardinality(HostIPs) |->
                   host_port(CHOOSE ip \in HostIPs : TRUE, self_ports.serf_lan)]
          ELSE _get_internal_join_addresses,
          IF variant = "split" THEN Some(tls_certificates) ELSE None)

\* The document of this cycle and the way it is written, per variant.
consul_config ==
    IF variant = "split"
    THEN build(self_ports, config.datacenter, planned_units,
               _get_internal_join_addresses, Some(tls_certificates))
    ELSE build(self_ports, config.datacenter, planned_units,
               _get_join_addesses(TRUE, NoQuery).value, None)

dumps_indent == IF variant = "split" THEN Some(2) ELSE None

\* Faulty variant: the file is written whatever the persisted document is.
_update_consul_config_always_writes ==
    [changed |-> TRUE, disk |-> json_dumps(consul_config, dumps_indent)]

\* [changed, disk]
_update_consul_config ==
    IF _running_consul_config = consul_config
    THEN [changed |-> FALSE, disk |-> disk]
    ELSE [changed |-> TRUE, disk |-> json_dumps(consul_config, dumps_indent)]

\* Faulty variant: the layer is never added to the plan.
_update_pebble_layer_never_adds == [changed |-> FALSE, plan |-> plan]

\* [changed, plan]
_update_pebble_layer ==
    IF plan = _pebble_layer.services
    THEN [changed |-> FALSE, plan |-> plan]
    ELSE [changed |-> TRUE, plan |-> add_layer(plan, _pebble_layer)]

\* restart = any([consul_config_changed, pebble_layer_changed])
\* Faulty variant: a re-applied layer alone does not trigger the restart.
restart_on_config_change_only(consul_config_changed, pebble_layer_changed) ==
    consul_config_changed

restart_needed(consul_config_changed, pebble_layer_changed) ==
    consul_config_changed \/ pebble_layer_changed

\* The outcomes of workload.restart: "ok" or the ChangeError raised.
RestartResults == {"ok"} \cup ChangeErrors
ResultsOfHook ==
    IF can_connect /\ restart_needed(_update_consul_config.changed,
                                     _update_pebble_layer.changed)
    THEN RestartResults
    ELSE {"ok"}

\* workload.restart raised ChangeError
restart_failed(restart, rr) == restart /\ rr # "ok"

\* Faulty variant: the endpoints are published before the files are written.
configure_effects_publish_first(cc, lc, restart, rr, published) ==
    published
    \o (IF cc THEN <<"push">> ELSE <<>>)
    \o (IF lc THEN <<"add_layer">> ELSE <<>>)
    \o (IF restart THEN <<"restart">> ELSE <<>>)
    \o (IF restart /\ rr # "ok"
        THEN <<rr, "status:blocked">>
        ELSE <<"status:active">>)

\* The side effects of a cycle with a reachable workload, in program order.
\* A failed restart is logged as the ChangeError it raised.
configure_effects(cc, lc, restart, rr, published) ==
    (IF cc THEN <<"push">> ELSE <<>>)
    \o (IF lc THEN <<"add_layer">> ELSE <<>>)
    \o (IF restart THEN <<"restart">> ELSE <<>>)
    \o (IF restart_failed(restart, rr)
        THEN <<rr, "status:blocked">>
        ELSE published \o <<"status:active">>)

\* The end of a cycle that converged: publish to all related apps, Active
OnConverged(q) ==
    /\ databag' = publish(None, q).databag
    /\ status' = _update_status(ActiveStatus)

\* Faulty variant: the except clause does not return, the cycle goes on.
OnRestartFailure_without_return(e) == OnConverged(NoQuery)

\* except ChangeError as e: Blocked, and return
OnRestartFailure(e) ==
    /\ status' = _update_status(BlockedStatus("Failed to restart Consul: " \o e))
    /\ databag' = databag

\* _configure from its second statement on: the workload is reachable
_converge(rr, q) ==
    LET cc == _update_consul_config
        lc == _update_pebble_layer
        restart == restart_needed(cc.changed, lc.changed)
    IN /\ disk' = cc.disk
       /\ plan' = lc.plan
       /\ IF restart_failed(restart, rr)
          THEN OnRestartFailure(rr)
          ELSE OnConverged(q)
       /\ log' = configure_effects(cc.changed, lc.changed, restart, rr,
                                   publish(None, q).effects)

\* Faulty variant: the cycle does not check that the workload is reachable.
_configure_without_can_connect(rr, q) == _converge(rr, q)

_configure(rr, q) ==
    IF ~can_connect
    THEN /\ status' = _update_status(WaitingStatus("Waiting for Pebble ready"))
         /\ log' = <<"status:waiting">>
         /\ UNCHANGED <<disk, plan, databag>>
    ELSE IF _running_consul_config_raises
    THEN /\ log' = <<"raise JSONDecodeError">>
         /\ UNCHANGED <<disk, plan, databag, status>>
    ELSE _converge(rr, q)

(***************************************************************************)
(* KubernetesServiceHandler                                                *)
(***************************************************************************)
ServiceTypes == {"NodePort", "LoadBalancer"}
NoService == [kind |-> "absent"]

_construct_service(service_ports, service_type) ==
    [kind |-> "Service",
     metadata |-> [name |-> app_name \o "-lb", namespace |-> model_name,
                   labels |-> [app_kubernetes_io_name |-> app_name]],
     spec |-> [ports |-> service_ports,
               selector |-> [app_kubernetes_io_name |-> app_name],
               type |-> service_type]]

\* [service, effects]: the Service object afterwards and the calls made.
_reconcile_service(service_ports, service_type) ==
    IF ~leader
    THEN [service |-> k8s_service, effects |-> <<>>]
    ELSE [service |-> _construct_service(service_ports, service_type),
          effects |-> <<"klm.reconcile">>]

\* Faulty variant: no leadership check.
_on_remove_by_any_unit ==
    [service |-> NoService, effects |-> <<"klm.delete">>]

\* [service, effects]: klm.delete() removes the Service object.
_on_remove ==
    IF ~leader
    THEN [service |-> k8s_service, effects |-> <<>>]
    ELSE [service |-> NoService, effects |-> <<"klm.delete">>]

(***************************************************************************)
(* The parts of the state the reconcile cycle does not touch.              *)
(***************************************************************************)
NoCall == [fn |-> "none"]
NoAnswer == [kind |-> "none"]
NotCached == [cached |-> FALSE]
CertKeys == {"private_key_password", "private_key", "csr", "certificate",
             "ca", "chain"}
cert_dir == "/consul/config/certs"
cert_file == cert_dir \o "/server-cert.pem"
key_file == cert_dir \o "/server-key.pem"
ca_file == cert_dir \o "/ca.pem"
CertPaths == {cert_file, key_file, ca_file}

InitExt ==
    /\ call = NoCall
    /\ prev = NoCall
    /\ api = NoAnswer
    /\ lb_cache = NotCached
    /\ handler_type = "NodePort"
    /\ cert_rel = FALSE
    /\ cert_bag = [k \in CertKeys |-> Absent]
    /\ cert_files = [f \in CertPaths |-> Absent]
    /\ deferred = {}

(***************************************************************************)
(* Initial state: a freshly deployed unit, before its first hook.          *)
(***************************************************************************)
Init ==
    /\ variant \in Variants
    /\ app_name \in AppNames
    /\ model_name \in ModelNames
    /\ config = DefaultConfig
    /\ nchanges = 0
    /\ planned_units = 1
    /\ leader \in BOOLEAN
    /\ can_connect = FALSE
    /\ disk = NoFile
    /\ plan = EmptyDict
    /\ status = [unit |-> MaintenanceStatus, app |-> UnknownStatus]
    /\ unit_ports = {}
    /\ rels = {}
    /\ databag = [r \in RelIds |-> EmptyBag]
    /\ k8s_service = NoService
    /\ hook = "none"
    /\ log = <<>>
    /\ InitExt

(***************************************************************************)
(* The environment.  The operator's changes (configuration, scale), the    *)
(* changes of leadership and the losses of the workload container are      *)
(* counted in nchanges.                                                    *)
(***************************************************************************)
\* The remove hook is the last one of a unit.
Alive == hook # "remove"
EnvStep == Alive /\ hook' = "none" /\ log' = <<>> /\ UNCHANGED ext_vars
Change == nchanges < MaxEnvChanges /\ nchanges' = nchanges + 1

\* juju config
SetConfig(c) ==
    /\ Change
    /\ c # config
    /\ config' = c
    /\ EnvStep
    /\ UNCHANGED <<variant, app_name, model_name, planned_units, leader,
                   can_connect, disk, plan, status, unit_ports, rels, databag,
                   k8s_service>>

\* juju scale-application
ScaleApplication(n) ==
    /\ Change
    /\ n # planned_units
    /\ planned_units' = n
    /\ EnvStep
    /\ UNCHANGED <<variant, app_name, model_name, config, leader, can_connect,
                   disk, plan, status, unit_ports, rels, databag, k8s_service>>

\* Leadership moves to or away from this unit.
LeaderChange ==
    /\ Change
    /\ leader' = ~leader
    /\ EnvStep
    /\ UNCHANGED <<variant, app_name, model_name, config, planned_units,
                   can_connect, disk, plan, status, unit_ports, rels, databag,
                   k8s_service>>

\* The workload container goes away.
WorkloadDown ==
    /\ Change
    /\ can_connect
    /\ can_connect' = FALSE
    /\ EnvStep
    /\ UNCHANGED <<variant, app_name, model_name, config,
                   planned_units, leader, disk, plan, status, unit_ports, rels,
                   databag, k8s_service>>

\* The workload container comes (back) up: its Pebble plan and its files are
\* those of the old container or those of a fresh one.
WorkloadUp ==
    /\ ~can_connect
    /\ can_connect' = TRUE
    /\ plan' \in {plan, EmptyDict}
    /\ disk' \in {disk, NoFile}
    /\ EnvStep
    /\ UNCHANGED <<variant, app_name, model_name, config, nchanges,
                   planned_units, leader, status, unit_ports, rels, databag,
                   k8s_service>>

\* juju integrate: the next consul-cluster relation is created.
AddRelation ==
    /\ Cardinality(rels) < MaxRelations
    /\ rels' = rels \cup {Cardinality(rels) + 1}
    /\ EnvStep
    /\ UNCHANGED <<variant, app_name, model_name, config, nchanges,
                   planned_units, leader, can_connect, disk, plan, status,
                   unit_ports, databag, k8s_service>>

(***************************************************************************)
(* The hooks.                                                              *)
(***************************************************************************)
\* _on_consul_pebble_ready, _on_config_changed, _on_upgrade: the three
\* handlers have the same body, self._configure().
ConfigureHook ==
    /\ Alive
    /\ hook' = "_configure"
    /\ Construct
    /\ \E rr \in ResultsOfHook :
          \E q \in (IF can_connect /\ rr = "ok" THEN QueriesOfHook ELSE {NoQuery}) :
             _configure(rr, q)
    /\ UNCHANGED <<variant, app_name, model_name, config, nchanges,
                   planned_units, leader, can_connect, rels, k8s_service>>
    /\ UNCHANGED ext_vars

\* _on_endpoints_request / _on_config_request, on relation-changed of r
RelationChanged(r) ==
    /\ Alive
    /\ r \in rels
    /\ hook' = "relation_changed"
    /\ Construct
    /\ \E q \in QueriesOfHook :
          LET pub == publish(Some(r), q) IN
          /\ databag' = pub.databag
          /\ log' = pub.effects
    /\ UNCHANGED <<variant, app_name, model_name, config, nchanges,
                   planned_units, leader, can_connect, disk, plan, status,
                   rels, k8s_service>>
    /\ UNCHANGED ext_vars

\* KubernetesServiceHandler._reconcile_service on its refresh event
ReconcileService(service_type) ==
    /\ Alive
    /\ hook' = "refresh_event"
    /\ LET rec == _reconcile_service(node_ports, service_type) IN
       /\ k8s_service' = rec.service
       /\ log' = rec.effects
    /\ UNCHANGED <<variant, app_name, model_name, config, nchanges,
                   planned_units, leader, can_connect, disk, plan, status,
                   unit_ports, rels, databag>>
    /\ UNCHANGED ext_vars

\* KubernetesServiceHandler._on_remove on the remove event of the unit
OnRemove ==
    /\ Alive
    /\ hook' = "remove"
    /\ k8s_service' = _on_remove.service
    /\ log' = _on_remove.effects
    /\ UNCHANGED <<variant, app_name, model_name, config, nchanges,
                   planned_units, leader, can_connect, disk, plan, status,
                   unit_ports, rels, databag>>
    /\ UNCHANGED ext_vars

Next ==
    \/ \E c \in ConfigsOf(variant) : SetConfig(c)
    \/ \E n \in 1..MaxUnits : ScaleApplication(n)
    \/ LeaderChange
    \/ WorkloadDown
    \/ WorkloadUp
    \/ AddRelation
    \/ ConfigureHook
    \/ \E r \in RelIds : RelationChanged(r)

Spec == Init /\ [][Next]_vars

(***************************************************************************)
(* The unit together with the Kubernetes service handler: the application  *)
(* is deployed with any of the configurations, leadership moves, and the   *)
(* handler's refresh event fires between the charm's hooks.                *)
(***************************************************************************)
InitService ==
    /\ variant \in Variants
    /\ app_name \in AppNames
    /\ model_name \in ModelNames
    /\ config \in ConfigsOf(variant)
    /\ nchanges = 0
    /\ planned_units = 1
    /\ leader \in BOOLEAN
    /\ can_connect = FALSE
    /\ disk = NoFile
    /\ plan = EmptyDict
    /\ status = [unit |-> MaintenanceStatus, app |-> UnknownStatus]
    /\ unit_ports = {}
    /\ rels = {}
    /\ databag = [r \in RelIds |-> EmptyBag]
    /\ k8s_service = NoService
    /\ hook = "none"
    /\ log = <<>>
    /\ InitExt

NextService ==
    \/ LeaderChange
    \/ WorkloadUp
    \/ AddRelation
    \/ ConfigureHook
    \/ \E r \in RelIds : RelationChanged(r)
    \/ \E t \in ServiceTypes : ReconcileService(t)
    \/ OnRemove

SpecService == InitService /\ [][NextService]_vars

(***************************************************************************)
(* Properties of the reconcile cycle.                                      *)
(***************************************************************************)
InLog(e) == \E i \in DOMAIN log : log[i] = e
RestartError == {e \in ChangeErrors : InLog(e)}

\* C1: two reconcile cycles in a row, with no change of configuration,
\* planned units, reachability or leadership in between: the second one
\* writes no file, re-applies no layer, restarts nothing and leaves the unit
\* and application status as the first left them.
C1_SecondCycleIsNoop ==
    [][(hook = "_configure" /\ hook' = "_configure")
       => /\ \A i \in DOMAIN log' : log'[i] \notin {"push", "add_layer", "restart"}
          /\ disk' = disk
          /\ plan' = plan
          /\ status' = status]_vars

\* C2: in a reconcile cycle with a reachable workload, the restart of the
\* consul service is attempted if and only if that cycle rewrote the
\* configuration file or re-applied the Pebble layer.
C2_RestartIffChanged ==
    [][(hook' = "_configure" /\ can_connect)
       => ((\E i \in DOMAIN log' : log'[i] = "restart")
           <=> (disk' # disk \/ plan' # plan))]_vars

\* A cycle that restarted because of the layer alone.
C2_Witness ==
    /\ hook = "_configure"
    /\ can_connect
    /\ InLog("restart")
    /\ InLog("add_layer")
    /\ ~InLog("push")

\* C3: a reconcile cycle whose restart fails ends Blocked with a message that
\* embeds the error raised, publishes nothing on any relation and does not
\* set Active.
C3_RestartFailureBlocks ==
    [][(hook' = "_configure" /\ \E e \in ChangeErrors, i \in DOMAIN log' : log'[i] = e)
       => /\ \E e \in ChangeErrors :
                /\ \E i \in DOMAIN log' : log'[i] = e
                /\ status'.unit = BlockedStatus("Failed to restart Consul: " \o e)
          /\ databag' = databag
          /\ \A i \in DOMAIN log' : log'[i] \notin {"publish", "status:active"}]_vars

\* The leader, related to an application, after a cycle whose restart failed.
C3_Witness ==
    /\ hook = "_configure"
    /\ RestartError # {}
    /\ leader
    /\ rels # {}
    /\ \A r \in rels : databag[r] = EmptyBag
    /\ status.unit.name = "blocked"

\* C4: within a reconcile cycle the configuration file is written before the
\* layer, both before the restart, and the restart before the publication of
\* the endpoints and before Active is set.
C4_OrderOfEffects ==
    hook = "_configure"
    => \A i, j \in DOMAIN log :
          /\ (log[i] = "push" /\ log[j] = "add_layer") => i < j
          /\ (log[i] \in {"push", "add_layer"} /\ log[j] = "restart") => i < j
          /\ (log[i] = "restart"
              /\ log[j] \in {"list_pods", "publish", "status:active"}) => i < j

\* A cycle that did all of it.
C4_Witness ==
    /\ hook = "_configure"
    /\ InLog("push")
    /\ InLog("add_layer")
    /\ InLog("restart")
    /\ InLog("list_pods")
    /\ InLog("publish")
    /\ InLog("status:active")

\* C5: a reconcile cycle that finds the workload unreachable sets Waiting and
\* does nothing else: the configuration file, the Pebble plan and the relation
\* databags are as before, nothing is restarted and nothing is deferred.
C5_UnreachableOnlyWaits ==
    [][(hook' = "_configure" /\ ~can_connect)
       => /\ status'.unit = WaitingStatus("Waiting for Pebble ready")
          /\ status'.app = (IF leader THEN status'.unit ELSE status.app)
          /\ disk' = disk
          /\ plan' = plan
          /\ databag' = databag
          /\ log' = <<"status:waiting">>]_vars

\* A cycle on a unit that had converged before and then lost its workload.
C5_Witness ==
    /\ hook = "_configure"
    /\ ~can_connect
    /\ status.unit.name = "waiting"
    /\ disk # NoFile
    /\ rels # {}

\* C6: whatever the events, a unit that is not the leader writes nothing to
\* any application databag through the publication calls, and its
\* _reconcile_service does not call the resource manager.
C6_NonLeaderWritesNothing ==
    [][~leader
       => /\ databag' = databag
          /\ hook' = "refresh_event"
             => /\ k8s_service' = k8s_service
                /\ \A i \in DOMAIN log' : log'[i] # "klm.reconcile"]_vars

\* A non-leader that is related, has published in a converged cycle, and has
\* then run _reconcile_service.
C6_Witness ==
    /\ ~leader
    /\ nchanges = 0
    /\ hook = "refresh_event"
    /\ status.unit = ActiveStatus
    /\ rels # {}
    /\ \A r \in rels : databag[r] = EmptyBag
    /\ k8s_service = NoService

(***************************************************************************)
(* Validation of the configuration.                                        *)
(***************************************************************************)
NodePortMin == 30000
NodePortMax == 32767
EnabledExposeValues == {"nodeport", "loadbalancer", PyTrue}
DisabledExposeValues == {PyNone, "false"}

InvalidNodePort(c) ==
    /\ c.expose \in EnabledExposeValues
    /\ c.serflan_node_port \notin NodePortMin..NodePortMax
InvalidExpose(c) == c.expose \notin EnabledExposeValues \cup DisabledExposeValues
InvalidConfig(c) == InvalidExpose(c) \/ InvalidNodePort(c)

InvalidNodePortMessage(c) ==
    "Invalid value '" \o str(c.serflan_node_port)
    \o "' for serflan-node-port. Valid range is 30000-32767"
InvalidExposeMessage(c) ==
    "Invalid value '" \o c.expose
    \o "' for expose-gossip-and-rpc-ports. Valid values are: false, nodeport, loadbalancer"

\* C7: with exposure enabled, a reconcile on a reachable workload leaves the
\* unit Blocked, with a message naming the value and the range 30000-32767,
\* when serflan-node-port is outside that range (29999, 32768), and Active
\* when it is 30000 or 32767.
C7_NodePortRangeChecked ==
    (hook = "_configure" /\ can_connect /\ config.expose \in EnabledExposeValues)
    => IF InvalidNodePort(config)
       THEN status.unit = BlockedStatus(InvalidNodePortMessage(config))
       ELSE RestartError = {} => status.unit = ActiveStatus

\* C8: a reconcile with an expose-gossip-and-rpc-ports that is not one of the
\* valid values leaves the unit Blocked with a message listing them; the value
\* is not taken for enabled or disabled.
C8_InvalidExposeBlocks ==
    (hook = "_configure" /\ can_connect /\ InvalidExpose(config))
    => /\ status.unit = BlockedStatus(InvalidExposeMessage(config))
       /\ ~InLog("publish")

\* C9: a reconcile with an invalid configuration applies nothing: the
\* configuration file, the Pebble plan, the declared ports and the relation
\* databags stay as they were.
C9_InvalidConfigNotApplied ==
    [][(hook' = "_configure" /\ InvalidConfig(config))
       => /\ disk' = disk
          /\ plan' = plan
          /\ unit_ports' = unit_ports
          /\ databag' = databag]_vars

\* C10: with exposure disabled the internal join addresses are exactly
\* <app>.<model>.svc:8301, the external join addresses are None, and the pod
\* listing is not queried.
C10_DisabledExposure ==
    config.expose \in DisabledExposeValues
    => /\ _get_internal_join_addresses
            = << host_port(svc_dns(app_name, model_name), SerfLanPort) >>
       /\ \A q \in PodQueries :
             /\ _get_external_join_addresses(q).value = None
             /\ ~_get_external_join_addresses(q).queried
       /\ ~InLog("list_pods")

(***************************************************************************)
(* The functions called directly.  The unit is deployed with any           *)
(* configuration; a function is called with inputs drawn from bounded      *)
(* sets, and `call` keeps the inputs, the configuration at the time of the *)
(* call and the result.  The environment changes between the calls.        *)
(***************************************************************************)
NodeIPs == {"10.10.0.10", "10.10.0.11"}
PodKinds == {NoStatusPod, StatusPod(None)} \cup {StatusPod(Some(ip)) : ip \in NodeIPs}
PodListsUpTo(n) == UNION {[1..k -> PodKinds] : k \in 0..n}
FnConfigs ==
    Configs \cup {[datacenter |-> "test-dc", expose |-> "nodeport",
                   serflan_node_port |-> 30501]}

InitFn ==
    /\ variant \in Variants
    /\ app_name \in AppNames
    /\ model_name \in ModelNames
    /\ config \in FnConfigs
    /\ nchanges = 0
    /\ planned_units = 1
    /\ leader = TRUE
    /\ can_connect = FALSE
    /\ disk = NoFile
    /\ plan = EmptyDict
    /\ status = [unit |-> MaintenanceStatus, app |-> UnknownStatus]
    /\ unit_ports = {}
    /\ rels = {}
    /\ databag = [r \in RelIds |-> EmptyBag]
    /\ k8s_service = NoService
    /\ hook = "none"
    /\ log = <<>>
    /\ InitExt

\* self._get_external_join_addresses(), the pod listing answering `pods`
CallExternalJoin(pods) ==
    /\ call = NoCall
    /\ \E ips \in SetToSeqs(_get_hostips_for_consul_service(pods)) :
          call' = [fn |-> "_get_external_join_addresses",
                   args |-> pods,
                   config |-> config,
                   ret |-> _get_external_join_addresses([pods |-> pods, ips |-> ips])]
    /\ prev' = NoCall
    /\ UNCHANGED <<core_vars, lb_vars, cert_vars>>

\* The inputs of the builder: the PortSet resolved from the configuration or
\* the default one, a datacenter, a number of units, a join list, and no TLS
\* paths, all of them or one of them.
BuildInputs ==
    [ports : {get_consul_ports(config), PortsDefaults},
     datacenter : Datacenters,
     number_of_units : 1..MaxUnits,
     retry_join : {_get_internal_join_addresses},
     tls_certificates : {None, Some(tls_certificates),
                         Some([ca_certificate_path |-> "/etc/ssl/certs/ca.pem"])}]

build_call(args) ==
    [fn |-> "build", args |-> args, config |-> config, units |-> planned_units,
     ret |-> build(args.ports, args.datacenter, args.number_of_units,
                   args.retry_join, args.tls_certificates)]

\* ConsulConfigBuilder(...).build()
CallBuild(args) ==
    /\ call = NoCall
    /\ call' = build_call(args)
    /\ prev' = NoCall
    /\ UNCHANGED <<core_vars, lb_vars, cert_vars>>

\* A second builder with the inputs of the first
CallBuildAgain ==
    /\ call.fn = "build"
    /\ prev = NoCall
    /\ call' = build_call(call.args)
    /\ prev' = call
    /\ UNCHANGED <<core_vars, lb_vars, cert_vars>>

NextFn ==
    \/ \E c \in ConfigsOf(variant) : SetConfig(c)
    \/ \E n \in 1..MaxUnits : ScaleApplication(n)
    \/ \E pods \in PodListsUpTo(MaxPods) : CallExternalJoin(pods)
    \/ \E args \in BuildInputs : CallBuild(args)
    \/ CallBuildAgain

SpecFn == InitFn /\ [][NextFn]_vars

\* The host IPs of the pods that have one.
DistinctHostIPs(pods) ==
    {ip \in NodeIPs : \E i \in DOMAIN pods :
        /\ pods[i].status.some
        /\ pods[i].status.v.hostIP.some
        /\ pods[i].status.v.hostIP.v = ip}

\* C11: with exposure enabled and serflan-node-port = P, whatever the pod
\* listing returns, the external join addresses hold exactly one entry
\* "<hostIP>:P" per distinct host IP of the pods that have a host IP; pods
\* without status or host IP add nothing, duplicates are collapsed.
C11_ExternalJoinAddresses ==
    (/\ call.fn = "_get_external_join_addresses"
     /\ call.config.expose \in EnabledExposeValues)
    => LET P == call.config.serflan_node_port
           ips == DistinctHostIPs(call.args)
           v == call.ret.value
       IN /\ v.some
          /\ Len(v.v) = Cardinality(ips)
          /\ \A ip \in ips :
                Cardinality({i \in DOMAIN v.v : v.v[i] = ip \o ":" \o str(P)}) = 1
          /\ \A i \in DOMAIN v.v : \E ip \in ips : v.v[i] = ip \o ":" \o str(P)

\* Two pods on the node 10.10.0.10 and a pod without status, node port 30501.
C11_Witness ==
    /\ call.fn = "_get_external_join_addresses"
    /\ call.config.expose = "nodeport"
    /\ call.config.serflan_node_port = 30501
    /\ call.args = <<StatusPod(Some("10.10.0.10")), NoStatusPod,
                     StatusPod(Some("10.10.0.10"))>>
    /\ call.ret.value = Some(<<"10.10.0.10:30501">>)

(***************************************************************************)
(* Port resolution and exposure planning, in the states in which a hook    *)
(* has constructed the charm on the current configuration.                 *)
(***************************************************************************)
\* C12: for every configuration the resolved serf_lan port is
\* serflan-node-port under nodeport and loadbalancer and the default 8301
\* under the disabled value 'false'; every other port keeps its fixed value.
C12_ResolvedPorts ==
    hook # "none"
    => /\ config.expose \in {"nodeport", "loadbalancer"}
          => self_ports.serf_lan = config.serflan_node_port
       /\ config.expose = "false" => self_ports.serf_lan = SerfLanPort
       /\ self_ports.http = HttpPort
       /\ self_ports.server = ServerPort
       /\ \A k \in {"dns", "https", "grpc", "grpc_tls", "serf_wan"} :
             self_ports[k] = Unsupported
       /\ \A k \in {"sidecar_min_port", "sidecar_max_port", "expose_min_port",
                    "expose_max_port"} : self_ports[k] = NoPort

ClusterInternalPorts ==
    {Port("tcp", self_ports.serf_lan), Port("udp", self_ports.serf_lan),
     Port("tcp", self_ports.http)}

\* C13: with expose-gossip-and-rpc-ports 'false' or an invalid string the
\* charm stores no Service handler and declares its ports at cluster-internal
\* scope only; a handler is stored for 'nodeport' and 'loadbalancer'.
C13_HandlerOnlyWhenExposed ==
    hook # "none"
    => /\ (config.expose = "false" \/ InvalidExpose(config))
          => /\ open_ports.service_patch = None
             /\ unit_ports = ClusterInternalPorts
       /\ config.expose \in {"nodeport", "loadbalancer"}
          => open_ports.service_patch # None

ExpectedServiceType(expose) ==
    IF expose = "loadbalancer" THEN "LoadBalancer" ELSE "NodePort"

\* C14: the exposure plan is a function of the mode: disabled declares exactly
\* the unit ports tcp/serf_lan, udp/serf_lan, tcp/http; nodeport and
\* loadbalancer build exactly the three Service ports gossip TCP, gossip UDP
\* (port = nodePort = serflan-node-port) and HTTP TCP 8500, tagged NodePort
\* for nodeport and LoadBalancer for loadbalancer.
C14_ExposurePlan ==
    hook # "none"
    => /\ config.expose \in DisabledExposeValues
          => /\ unit_ports = {Port("tcp", SerfLanPort), Port("udp", SerfLanPort),
                              Port("tcp", HttpPort)}
             /\ open_ports.service_patch = None
       /\ config.expose \in {"nodeport", "loadbalancer"}
          => LET patch == open_ports.service_patch
                 P == config.serflan_node_port
             IN /\ patch.some
                /\ Len(patch.v.ports) = 3
                /\ \E i, j, k \in 1..3 :
                      /\ {i, j, k} = 1..3
                      /\ patch.v.ports[i].protocol = "TCP"
                      /\ patch.v.ports[i].port = P
                      /\ patch.v.ports[i].nodePort = Some(P)
                      /\ patch.v.ports[j].protocol = "UDP"
                      /\ patch.v.ports[j].port = P
                      /\ patch.v.ports[j].nodePort = Some(P)
                      /\ patch.v.ports[k].protocol = "TCP"
                      /\ patch.v.ports[k].port = HttpPort
                /\ patch.v.service_type = ExpectedServiceType(config.expose)

DisabledPorts == {"dns", "grpc", "grpc_tls", "serf_wan"}

C17_RemoveDeletesIffLeader ==
    [][/\ hook' = "remove"
          => IF leader
             THEN k8s_service' = NoService /\ log' = <<"klm.delete">>
             ELSE k8s_service' = k8s_service /\ log' = <<>>
       /\ hook' = "refresh_event"
          => /\ \A i \in DOMAIN log' : log'[i] # "klm.delete"
             /\ k8s_service # NoService => k8s_service' # NoService]_vars

\* The leader has been removed after it had taken leadership and converged.
C17_Witness ==
    /\ hook = "remove"
    /\ leader
    /\ nchanges > 0
    /\ status.unit = ActiveStatus
    /\ log = <<"klm.delete">>
    /\ k8s_service = NoService

(***************************************************************************)
(* KubernetesServiceHandler.get_loadbalancer_ip.  `api` is what the        *)
(* cluster answers to lightkube_client.get(Service, name, namespace):      *)
(* an ApiError, or a Service whose status, status.loadBalancer and         *)
(* status.loadBalancer.ingress may each be missing.  An ingress entry is   *)
(* None or carries an optional ip.                                         *)
(***************************************************************************)
LbIPs == {"203.0.113.10", "203.0.113.11"}
IngressEntries == {None, Some([ip |-> None])} \cup {Some([ip |-> Some(i)]) : i \in LbIPs}
IngressLists == UNION {[1..n -> IngressEntries] : n \in 0..MaxIngress}
LoadBalancerStatuses == {None} \cup {Some([ingress |-> None])} \cup {Some([ingress |-> Some(l)]) : l \in IngressLists}
ServiceStatuses == {None} \cup {Some([loadBalancer |-> lb]) : lb \in LoadBalancerStatuses}
ApiError == [kind |-> "ApiError"]
ApiAnswers == {ApiError} \cup {[kind |-> "Service", status |-> st] : st \in ServiceStatuses}

\* Faulty variant: the address of the last ingress entry.
get_loadbalancer_ip_last_ingress(service_type, answer) ==
    IF service_type # "LoadBalancer"
    THEN [value |-> None, queried |-> FALSE]
    ELSE [queried |-> TRUE,
          value |->
            IF answer.kind = "ApiError" THEN None
            ELSE IF ~answer.status.some THEN None
            ELSE IF ~answer.status.v.loadBalancer.some THEN None
            ELSE IF ~answer.status.v.loadBalancer.v.ingress.some THEN None
            ELSE LET ingress_addresses == answer.status.v.loadBalancer.v.ingress.v
                 IN  IF ingress_addresses = <<>> THEN None
                     ELSE IF ~ingress_addresses[Len(ingress_addresses)].some THEN None
                     ELSE ingress_addresses[Len(ingress_addresses)].v.ip]

\* [value, queried]: the value returned by the body of the method, and
\* whether lightkube_client.get was called.
get_loadbalancer_ip(service_type, answer) ==
    IF service_type # "LoadBalancer"
    THEN [value |-> None, queried |-> FALSE]
    ELSE [queried |-> TRUE,
          value |->
            IF answer.kind = "ApiError" THEN None
            ELSE IF ~answer.status.some THEN None
            ELSE IF ~answer.status.v.loadBalancer.some THEN None
            ELSE IF ~answer.status.v.loadBalancer.v.ingress.some THEN None
            ELSE LET ingress_addresses == answer.status.v.loadBalancer.v.ingress.v
                 IN  IF ingress_addresses = <<>> THEN None
                     ELSE IF ~ingress_addresses[1].some THEN None
                     ELSE ingress_addresses[1].v.ip]

\* Faulty variant: without the cache every call runs the body.
uncached_get_loadbalancer_ip ==
    LET r == get_loadbalancer_ip(handler_type, api)
    IN  [value |-> r.value, queried |-> r.queried,
         answer |-> IF r.queried THEN api ELSE NoAnswer]

\* @functools.cache: the first call of a handler runs the body and stores
\* its value, later calls of the same handler return the stored value.
\* [value, queried, answer]: answer is the API answer the value comes from.
cached_get_loadbalancer_ip ==
    IF lb_cache.cached
    THEN [value |-> lb_cache.value, queried |-> FALSE, answer |-> lb_cache.answer]
    ELSE LET r == get_loadbalancer_ip(handler_type, api)
         IN  [value |-> r.value, queried |-> r.queried,
              answer |-> IF r.queried THEN api ELSE NoAnswer]

InitLb ==
    /\ variant \in Variants
    /\ app_name \in AppNames
    /\ model_name \in ModelNames
    /\ config = DefaultConfig
    /\ nchanges = 0
    /\ planned_units = 1
    /\ leader = TRUE
    /\ can_connect = FALSE
    /\ disk = NoFile
    /\ plan = EmptyDict
    /\ status = [unit |-> MaintenanceStatus, app |-> UnknownStatus]
    /\ unit_ports = {}
    /\ rels = {}
    /\ databag = [r \in RelIds |-> EmptyBag]
    /\ k8s_service = NoService
    /\ hook = "none"
    /\ log = <<>>
    /\ call = NoCall
    /\ prev = NoCall
    /\ api \in ApiAnswers
    /\ lb_cache = NotCached
    /\ handler_type \in ServiceTypes
    /\ cert_rel = FALSE
    /\ cert_bag = [k \in CertKeys |-> Absent]
    /\ cert_files = [f \in CertPaths |-> Absent]
    /\ deferred = {}

\* The cluster assigns, changes or withdraws the load balancer address, or
\* its API starts or stops failing.
ApiChange(answer) ==
    /\ api # answer
    /\ api' = answer
    /\ call' = NoCall
    /\ UNCHANGED <<core_vars, prev, lb_cache, handler_type, cert_vars>>

\* A hook starts: the charm constructs a new handler, whose cache is empty.
NewHandler(service_type) ==
    /\ handler_type' = service_type
    /\ lb_cache' = NotCached
    /\ call' = NoCall
    /\ UNCHANGED <<core_vars, prev, api, cert_vars>>

\* handler.get_loadbalancer_ip()
GetLoadBalancerIp ==
    LET r == cached_get_loadbalancer_ip
    IN  /\ call' = [fn |-> "get_loadbalancer_ip",
                    args |-> [service_type |-> handler_type],
                    cached |-> lb_cache.cached,
                    queried |-> r.queried,
                    answer |-> r.answer,
                    ret |-> r.value]
        /\ lb_cache' = [cached |-> TRUE, value |-> r.value, answer |-> r.answer]
        /\ UNCHANGED <<core_vars, prev, api, handler_type, cert_vars>>

NextLb ==
    \/ \E a \in ApiAnswers : ApiChange(a)
    \/ \E t \in ServiceTypes : NewHandler(t)
    \/ GetLoadBalancerIp

SpecLb == InitLb /\ [][NextLb]_vars

\* The Service was read and its status lists at least one ingress entry.
HasIngress(answer) ==
    /\ answer.kind = "Service"
    /\ answer.status.some
    /\ answer.status.v.loadBalancer.some
    /\ answer.status.v.loadBalancer.v.ingress.some
    /\ Len(answer.status.v.loadBalancer.v.ingress.v) > 0

FirstIngress(answer) == Head(answer.status.v.loadBalancer.v.ingress.v)

\* C18: get_loadbalancer_ip returns None without querying the API when the
\* service type is NodePort; for LoadBalancer the first call of a handler
\* queries the API, and the value returned is the ip of the first ingress
\* entry of the Service status that was read, or None when the API call
\* failed or status, loadBalancer or ingress is missing or empty.
C18_LoadBalancerIp ==
    call.fn = "get_loadbalancer_ip"
    => /\ call.args.service_type = "NodePort"
          => call.ret = None /\ ~call.queried /\ call.answer = NoAnswer
       /\ call.args.service_type = "LoadBalancer"
          => /\ call.queried = ~call.cached
             /\ call.answer \in ApiAnswers
             /\ call.ret = IF HasIngress(call.answer) /\ FirstIngress(call.answer).some
                           THEN FirstIngress(call.answer).v.ip
                           ELSE None

\* A load balancer with two ingress entries: the first address is returned.
C18_Witness ==
    /\ call.fn = "get_loadbalancer_ip"
    /\ call.args.service_type = "LoadBalancer"
    /\ call.queried
    /\ HasIngress(call.answer)
    /\ Len(call.answer.status.v.loadBalancer.v.ingress.v) = 2
    /\ call.answer.status.v.loadBalancer.v.ingress.v[2] = Some([ip |-> Some("203.0.113.11")])
    /\ call.ret = Some("203.0.113.10")

(***************************************************************************)
(* The certificate handlers of the charm.  Each returns                    *)
(* [unit_status, bag, files, defer, effects]: the unit status set (None    *)
(* when the handler sets none), the application databag of the             *)
(* certificates relation and the certificate files afterwards, whether the *)
(* event was deferred, and the calls made in order.  A handler that raises *)
(* ends with a "raise" effect and keeps what it had written before.        *)
(***************************************************************************)
PrivateKeys == {"private-key-1", "private-key-2"}
Certificates == {"certificate-1", "certificate-2"}
CAs == {"ca-1"}
Reasons == {"revoked", "expired"}
CertificateEvents == [certificate : Certificates, ca : CAs]
NoEvent == [certificate |-> Absent, ca |-> Absent]

unhandled(exception) ==
    [unit_status |-> None, bag |-> cert_bag, files |-> cert_files,
     defer |-> FALSE, effects |-> <<"raise " \o exception>>]

\* Faulty variant: the unit waits but the event is not deferred.
relation_absent_without_defer ==
    [unit_status |-> Some(WaitingStatus("Waiting for peer relation to be created")),
     bag |-> cert_bag, files |-> cert_files, defer |-> FALSE, effects |-> <<>>]

\* if not certificates_relation: Waiting, event.defer(), return
relation_absent ==
    [unit_status |-> Some(WaitingStatus("Waiting for peer relation to be created")),
     bag |-> cert_bag, files |-> cert_files, defer |-> TRUE,
     effects |-> <<"event.defer">>]

\* certificates_relation.data[self.app]: the framework lets only the leader
\* read or write the application's own databag.
app_data_accessible == leader

\* private_key is what generate_private_key returned.
\* There is no leadership check: a unit that is not the leader calls update
\* as well, and the framework raises.
_on_install(private_key) ==
    IF ~cert_rel THEN relation_absent
    ELSE IF ~app_data_accessible
    THEN [unit_status |-> None, bag |-> cert_bag, files |-> cert_files,
          defer |-> FALSE,
          effects |-> <<"relation.data[app].update", "raise RelationDataAccessError">>]
    ELSE [unit_status |-> None,
          bag |-> [cert_bag EXCEPT !["private_key_password"] = "banana",
                                   !["private_key"] = private_key],
          files |-> cert_files, defer |-> FALSE,
          effects |-> <<"relation.data[app].update">>]

\* The arguments of generate_csr(...): private_key.encode() of a missing
\* key and self.cert_subject, an attribute the charm never defines, both
\* raise AttributeError before generate_csr is called.
generate_csr_arguments ==
    IF ~app_data_accessible THEN unhandled("RelationDataAccessError")
    ELSE unhandled("AttributeError")

_on_certificates_relation_created ==
    IF ~cert_rel THEN relation_absent ELSE generate_csr_arguments

_on_certificate_available(event) ==
    IF ~cert_rel THEN relation_absent
    ELSE IF ~app_data_accessible THEN unhandled("RelationDataAccessError")
    ELSE IF ~can_connect THEN unhandled("ConnectionError")
    ELSE IF cert_bag["private_key"] = Absent
    THEN [unit_status |-> None, bag |-> cert_bag,
          files |-> [cert_files EXCEPT ![cert_file] = event.certificate],
          defer |-> FALSE,
          effects |-> <<"push " \o cert_file, "raise AttributeError">>]
    ELSE [unit_status |-> Some(ActiveStatus), bag |-> cert_bag,
          files |-> [cert_files EXCEPT ![cert_file] = event.certificate,
                                       ![key_file] = cert_bag["private_key"],
                                       ![ca_file] = event.ca],
          defer |-> FALSE,
          effects |-> <<"push " \o cert_file, "push " \o key_file,
                        "push " \o ca_file>>]

\* The renewal request and the databag update of lines 370-374 come after
\* generate_csr(...) and are never reached.
_on_certificate_expiring ==
    IF ~cert_rel THEN relation_absent ELSE generate_csr_arguments

\* The renewal request, the databag update, the three pops and the Waiting
\* status of lines 386-394 come after generate_csr(...) and are never reached.
_certificate_revoked == generate_csr_arguments

_on_certificate_invalidated(reason) ==
    IF ~cert_rel THEN relation_absent
    ELSE IF reason = "revoked" THEN _certificate_revoked
    ELSE IF reason = "expired" THEN _on_certificate_expiring
    ELSE [unit_status |-> None, bag |-> cert_bag, files |-> cert_files,
          defer |-> FALSE, effects |-> <<>>]

_on_all_certificates_invalidated ==
    [unit_status |-> None, bag |-> cert_bag, files |-> cert_files,
     defer |-> FALSE, effects |-> <<>>]

raised(r) == r.effects # <<>> /\ r.effects[Len(r.effects)] \in {"raise RelationDataAccessError", "raise AttributeError", "raise ConnectionError"}

\* The framework runs handler `h` on an event, newly emitted or redelivered
\* after a deferral: a deferred event stays recorded until a handler run
\* completes without deferring it again.
CertHandler(h, event, r) ==
    /\ Alive
    /\ variant = "split"
    /\ hook' = h
    /\ call' = [fn |-> h, args |-> event]
    /\ log' = r.effects
    /\ status' = IF r.unit_status.some THEN [status EXCEPT !.unit = r.unit_status.v] ELSE status
    /\ cert_bag' = r.bag
    /\ cert_files' = r.files
    /\ deferred' = IF r.defer THEN deferred \cup {h} ELSE IF raised(r) THEN deferred ELSE deferred \ {h}
    /\ UNCHANGED <<variant, app_name, model_name, config, nchanges,
                   planned_units, leader, can_connect, disk, plan, unit_ports,
                   rels, databag, k8s_service, prev, lb_vars, cert_rel>>

OnInstall == \E k \in PrivateKeys : CertHandler("install", NoEvent, _on_install(k))

OnCertificatesRelationCreated == CertHandler("certificates_relation_created", NoEvent, _on_certificates_relation_created)

OnCertificateAvailable(event) == CertHandler("certificate_available", event, _on_certificate_available(event))

OnCertificateExpiring == CertHandler("certificate_expiring", NoEvent, _on_certificate_expiring)

OnCertificateInvalidated(reason) == CertHandler("certificate_invalidated", [reason |-> reason], _on_certificate_invalidated(reason))

OnAllCertificatesInvalidated == CertHandler("all_certificates_invalidated", NoEvent, _on_all_certificates_invalidated)

\* juju integrate: the certificates relation is created, its databag empty.
CertificatesRelationJoined ==
    /\ Alive
    /\ ~cert_rel
    /\ cert_rel' = TRUE
    /\ hook' = "none"
    /\ log' = <<>>
    /\ UNCHANGED <<variant, app_name, model_name, config, nchanges,
                   planned_units, leader, can_connect, disk, plan, status,
                   unit_ports, rels, databag, k8s_service, fn_vars, lb_vars,
                   cert_bag, cert_files, deferred>>

\* juju remove-relation: the relation and its databags are gone.
CertificatesRelationRemoved ==
    /\ Alive
    /\ Change
    /\ cert_rel
    /\ cert_rel' = FALSE
    /\ cert_bag' = [k \in CertKeys |-> Absent]
    /\ hook' = "none"
    /\ log' = <<>>
    /\ UNCHANGED <<variant, app_name, model_name, config, planned_units,
                   leader, can_connect, disk, plan, status, unit_ports, rels,
                   databag, k8s_service, fn_vars, lb_vars, cert_files, deferred>>

InitCerts ==
    /\ variant = "split"
    /\ app_name \in AppNames
    /\ model_name \in ModelNames
    /\ config = DefaultConfig
    /\ nchanges = 0
    /\ planned_units = 1
    /\ leader \in BOOLEAN
    /\ can_connect = FALSE
    /\ disk = NoFile
    /\ plan = EmptyDict
    /\ status = [unit |-> MaintenanceStatus, app |-> UnknownStatus]
    /\ unit_ports = {}
    /\ rels = {}
    /\ databag = [r \in RelIds |-> EmptyBag]
    /\ k8s_service = NoService
    /\ hook = "none"
    /\ log = <<>>
    /\ InitExt

NextCerts ==
    \/ LeaderChange
    \/ WorkloadUp
    \/ WorkloadDown
    \/ CertificatesRelationJoined
    \/ CertificatesRelationRemoved
    \/ OnInstall
    \/ OnCertificatesRelationCreated
    \/ \E e \in CertificateEvents : OnCertificateAvailable(e)
    \/ OnCertificateExpiring
    \/ \E reason \in Reasons : OnCertificateInvalidated(reason)
    \/ OnAllCertificatesInvalidated

SpecCerts == InitCerts /\ [][NextCerts]_vars

\* The handlers that check for the certificates relation.
CertificateHandlers == {"install", "certificates_relation_created", "certificate_available", "certificate_expiring", "certificate_invalidated"}

\* C19: when the certificates relation is absent and install,
\* relation-created, certificate-available, certificate-expiring or
\* certificate-invalidated is handled, the unit becomes Waiting, the event is
\* deferred, and no databag entry, certificate file or certificate request
\* is written.
C19_RelationAbsentDefers ==
    [][(hook' \in CertificateHandlers /\ ~cert_rel)
       => /\ status'.unit = WaitingStatus("Waiting for peer relation to be created")
          /\ status'.app = status.app
          /\ hook' \in deferred'
          /\ log' = <<"event.defer">>
          /\ cert_bag' = cert_bag
          /\ cert_files' = cert_files]_vars

\* A certificate arrived for the leader of a reachable workload after the
\* relation, with the key staged, had been removed: the event is deferred.
C19_Witness ==
    /\ hook = "certificate_available"
    /\ ~cert_rel
    /\ leader /\ can_connect
    /\ nchanges > 0
    /\ status.unit = WaitingStatus("Waiting for peer relation to be created")
    /\ "certificate_available" \in deferred
    /\ \A f \in CertPaths : cert_files[f] = Absent
    /\ \A k \in CertKeys : cert_bag[k] = Absent

\* C20: when certificate-available is handled with the certificates relation
\* present, the event's certificate, the staged private key and the event's
\* CA are written to server-cert.pem, server-key.pem and ca.pem under
\* /consul/config/certs and the unit becomes Active.
C20_CertificateAvailableWritesFiles ==
    [][(hook' = "certificate_available" /\ cert_rel)
       => /\ cert_files'["/consul/config/certs/server-cert.pem"] = call'.args.certificate
          /\ cert_files'["/consul/config/certs/server-key.pem"] = cert_bag["private_key"]
          /\ cert_bag["private_key"] # Absent
          /\ cert_files'["/consul/config/certs/ca.pem"] = call'.args.ca
          /\ status'.unit = ActiveStatus]_vars

\* C21: when certificate-invalidated with reason 'revoked' is handled with
\* the certificates relation present, the handler completes: a renewal is
\* requested, the stored csr is replaced by a new one, the certificate, ca
\* and chain entries are absent afterwards and the unit is Waiting for the
\* new certificate.
C21_RevokedRenews ==
    [][(hook' = "certificate_invalidated" /\ cert_rel /\ call'.args.reason = "revoked")
       => /\ \A i \in DOMAIN log' : log'[i] \notin {"raise RelationDataAccessError", "raise AttributeError", "raise KeyError"}
          /\ \E i \in DOMAIN log' : log'[i] = "request_certificate_renewal"
          /\ cert_bag'["csr"] \notin {Absent, cert_bag["csr"]}
          /\ \A k \in {"certificate", "ca", "chain"} : cert_bag'[k] = Absent
          /\ status'.unit = WaitingStatus("Waiting for new certificate")]_vars

\* C22: certificate-invalidated with reason 'expired' has the effect of
\* certificate-expiring from the same state, which is one renewal request,
\* the stored csr replaced by a new one, and every other databag key, the
\* files and the status unchanged.
C22_ExpiredIsExpiring ==
    [][(\/ hook' = "certificate_expiring"
        \/ hook' = "certificate_invalidated" /\ call'.args.reason = "expired")
       /\ cert_rel
       => /\ log' = _on_certificate_expiring.effects
          /\ cert_bag' = _on_certificate_expiring.bag
          /\ log' = <<"request_certificate_renewal", "relation.data[app].update">>
          /\ cert_bag'["csr"] \notin {Absent, cert_bag["csr"]}
          /\ \A k \in CertKeys \ {"csr"} : cert_bag'[k] = cert_bag[k]
          /\ cert_files' = cert_files
          /\ status' = status]_vars

(***************************************************************************)
(* ConsulConfigRequirer, the requirer side of the consul-cluster relation. *)
(* In this part `rels` and `databag` are the relation and the provider's   *)
(* application databag as the requiring unit sees them, and `log` lists    *)
(* the events the requirer emits.                                          *)
(***************************************************************************)
AddressLists == {<<>>, <<"consul-k8s.test-model.svc:8301">>, <<"10.0.0.10:30501", "10.0.0.11:30501">>}
JsonListTexts == {json_list(xs) : xs \in AddressLists}
OtherJsonTexts == {json_null, json_str("consul-k8s.test-model.svc:8301"), "[1, 2]", "{}"}
NotJsonTexts == {"not json", "[\"consul:8301\""}
DatabagTexts == JsonListTexts \cup OtherJsonTexts \cup NotJsonTexts

\* json.loads on the texts a databag may hold, and the validation of the
\* value as list[str]: the list, or the error raised.
json_loads_list_of_str(text) ==
    IF text \in NotJsonTexts THEN [kind |-> "JSONDecodeError"]
    ELSE IF \E xs \in AddressLists : json_list(xs) = text
    THEN [kind |-> "list", v |-> CHOOSE xs \in AddressLists : json_list(xs) = text]
    ELSE [kind |-> "not a list of str"]

\* ConsulConfigProviderAppData(**databag): [ok, data], ok false standing for
\* ValidationError.  Field("...") makes its first argument the default of
\* the field, which is taken unvalidated when the key is missing.
ConsulConfigProviderAppData(bag) ==
    LET dc == IF bag["datacenter"] = Absent THEN "Datacenter cluster name"
              ELSE bag["datacenter"]
        v == bag["server_join_addresses"]
    IN  IF v = Absent
        THEN [ok |-> TRUE,
              data |-> [datacenter |-> Some(dc),
                        server_join_addresses |-> Some("Consul server join addresses")]]
        ELSE IF json_loads_list_of_str(v).kind = "list"
        THEN [ok |-> TRUE,
              data |-> [datacenter |-> Some(dc),
                        server_join_addresses |-> Some(json_loads_list_of_str(v).v)]]
        ELSE [ok |-> FALSE]

\* self.framework.model.get_relation(self.relation_name)
_consul_cluster_rel == IF rels = {} THEN None ELSE Some(CHOOSE r \in rels : TRUE)

\* Faulty variant: the databag is not validated.
_validate_databag_from_relation_unchecked(rel) == TRUE

_validate_databag_from_relation(rel) ==
    IF rel.some
    THEN ConsulConfigProviderAppData(databag[rel.v]).ok
    ELSE TRUE

\* {} is modelled by both fields missing, so that data.get(...) is None.
_get_app_databag_from_relation(rel) ==
    IF rel.some /\ ConsulConfigProviderAppData(databag[rel.v]).ok
    THEN ConsulConfigProviderAppData(databag[rel.v]).data
    ELSE [datacenter |-> None, server_join_addresses |-> None]

Requirer_datacenter == _get_app_databag_from_relation(_consul_cluster_rel).datacenter
Requirer_server_join_addresses == _get_app_databag_from_relation(_consul_cluster_rel).server_join_addresses

\* ConsulConfigRequirer._on_relation_changed: the events emitted.
Requirer_on_relation_changed(rel) ==
    IF _validate_databag_from_relation(rel)
    THEN <<"config_changed.emit">>
    ELSE <<>>

\* Never observed: __init__ binds relation_broken to _on_relation_changed.
Requirer_on_relation_broken == <<"goneaway.emit">>

InitRequirer ==
    /\ variant = "legacy"
    /\ app_name \in AppNames
    /\ model_name \in ModelNames
    /\ config = DefaultConfig
    /\ nchanges = 0
    /\ planned_units = 1
    /\ leader \in BOOLEAN
    /\ can_connect = FALSE
    /\ disk = NoFile
    /\ plan = EmptyDict
    /\ status = [unit |-> MaintenanceStatus, app |-> UnknownStatus]
    /\ unit_ports = {}
    /\ rels = {}
    /\ databag = [r \in RelIds |-> EmptyBag]
    /\ k8s_service = NoService
    /\ hook = "none"
    /\ log = <<>>
    /\ InitExt

RequirerFrame ==
    UNCHANGED <<variant, app_name, model_name, config, nchanges,
                planned_units, leader, can_connect, disk, plan, status,
                unit_ports, k8s_service, prev, lb_vars, cert_vars>>

\* juju integrate: the relation to the consul server is created; a unit has
\* at most one relation on this endpoint.
RequirerRelationCreated(r) ==
    /\ rels = {}
    /\ rels' = {r}
    /\ hook' = "none" /\ log' = <<>> /\ call' = NoCall
    /\ UNCHANGED databag
    /\ RequirerFrame

\* The provider application sets or clears fields of its databag.
ProviderWrites(r, dc, addresses) ==
    /\ r \in rels
    /\ databag' = [databag EXCEPT ![r] = bag_update(@, [datacenter |-> dc, server_join_addresses |-> addresses])]
    /\ databag' # databag
    /\ hook' = "none" /\ log' = <<>> /\ call' = NoCall
    /\ UNCHANGED rels
    /\ RequirerFrame

\* relation-changed on the requirer
RequirerRelationChanged ==
    /\ rels # {}
    /\ hook' = "relation_changed"
    /\ log' = Requirer_on_relation_changed(_consul_cluster_rel)
    /\ call' = NoCall
    /\ UNCHANGED <<rels, databag>>
    /\ RequirerFrame

\* relation-broken on the requirer, handled by _on_relation_changed.  Whether
\* get_relation still returns the relation during this hook depends on the
\* framework: `visible` ranges over both.  The relation is gone afterwards.
RequirerRelationBroken(visible) ==
    /\ rels # {}
    /\ hook' = "relation_broken"
    /\ log' = Requirer_on_relation_changed(IF visible THEN _consul_cluster_rel ELSE None)
    /\ call' = NoCall
    /\ rels' = {}
    /\ databag' = [r \in RelIds |-> EmptyBag]
    /\ RequirerFrame

\* The requiring charm reads the two properties.
ReadProperties ==
    /\ call' = [fn |-> "properties",
                ret |-> [datacenter |-> Requirer_datacenter,
                         server_join_addresses |-> Requirer_server_join_addresses]]
    /\ UNCHANGED <<rels, databag, hook, log>>
    /\ RequirerFrame

NextRequirer ==
    \/ \E r \in RelIds : RequirerRelationCreated(r)
    \/ \E r \in RelIds, dc \in Datacenters \cup {Absent}, a \in DatabagTexts \cup {Absent} : ProviderWrites(r, dc, a)
    \/ RequirerRelationChanged
    \/ \E visible \in BOOLEAN : RequirerRelationBroken(visible)
    \/ ReadProperties

SpecRequirer == InitRequirer /\ [][NextRequirer]_vars

\* The provider's databag holds a server_join_addresses that is not the
\* JSON text of a list of strings.
Malformed(bag) == bag["server_join_addresses"] \in NotJsonTexts \cup OtherJsonTexts

\* C23: while the provider's app databag is malformed, a relation-changed
\* event on the requirer emits nothing and raises nothing, and the
\* datacenter and server_join_addresses properties are None.
C23_MalformedDatabagIgnored ==
    \A r \in rels :
        Malformed(databag[r])
        => /\ hook = "relation_changed" => log = <<>>
           /\ call.fn = "properties"
              => /\ call.ret.datacenter = None
                 /\ call.ret.server_join_addresses = None

\* relation-changed was handled and the properties were read while
\* server_join_addresses was not JSON and the datacenter was set.
C23_Witness ==
    /\ hook = "relation_changed"
    /\ log = <<>>
    /\ call.fn = "properties"
    /\ call.ret.datacenter = None
    /\ \E r \in rels : /\ databag[r]["server_join_addresses"] = "not json"
                       /\ databag[r]["datacenter"] = "dc1"

\* C24: when the relation is removed the requirer emits goneaway and does
\* not emit config_changed.
C24_BrokenEmitsGoneaway ==
    [][hook' = "relation_broken" => log' = <<"goneaway.emit">>]_vars

(***************************************************************************)
(* The endpoint set published by the split charm.                          *)
(***************************************************************************)
\* The DNS name of the Service the handler creates, "<app>-lb".
lb_svc_dns(app, model) == app \o "-lb." \o model \o ".svc"

\* C25: with exposure nodeport or loadbalancer and serflan-node-port P, a
\* reconcile cycle of the leader that publishes leaves in every relation the
\* internal gossip endpoints ["<app>-lb.<model>.svc:P"], the internal HTTP
\* endpoint "<app>-lb.<model>.svc:8500", external gossip endpoints built
\* from the pod host IPs, and healthcheck endpoints ["<lb_ip>:P"] or None.
C25_ExposedEndpoints ==
    (/\ variant = "split"
     /\ hook = "_configure"
     /\ leader
     /\ InLog("publish")
     /\ config.expose \in {"nodeport", "loadbalancer"})
    => \A r \in rels :
          /\ databag[r]["internal_gossip_endpoints"]
                = json_list(<<host_port(lb_svc_dns(app_name, model_name), config.serflan_node_port)>>)
          /\ databag[r]["internal_http_endpoint"]
                = json_str(host_port(lb_svc_dns(app_name, model_name), HttpPort))
          /\ \E q \in PodQueries :
                databag[r]["external_gossip_endpoints"]
                   = json_opt_list(_get_external_join_addresses(q).value)
          /\ databag[r]["external_gossip_healthcheck_endpoints"]
                \in {json_null} \cup {json_list(<<host_port(ip, config.serflan_node_port)>>) : ip \in LbIPs}

(***************************************************************************)
(* The databag of the legacy charm.                                        *)
(***************************************************************************)
\* C26: on the legacy charm, after a reconcile cycle of the leader that
\* publishes, the app databag of every relation holds exactly datacenter
\* and server_join_addresses; server_join_addresses is the JSON list of
\* "<hostIP>:<serflan-node-port>", one per distinct pod host IP, when
\* exposure is enabled and ["<app>.<model>.svc:8301"] when it is disabled.
C26_LegacyDatabag ==
    (/\ variant = "legacy"
     /\ hook = "_configure"
     /\ leader
     /\ InLog("publish"))
    => \A r \in rels :
          /\ \A k \in Keys : (databag[r][k] # Absent) <=> (k \in LegacyKeys)
          /\ databag[r]["datacenter"] = config.datacenter
          /\ IF config.expose = PyTrue
             THEN \E ips \in SUBSET HostIPs :
                     \E xs \in SetToSeqs({ip \o ":" \o str(config.serflan_node_port) : ip \in ips}) :
                        /\ databag[r]["server_join_addresses"] = json_list(xs)
                        /\ InLog("list_pods")
             ELSE /\ databag[r]["server_join_addresses"]
                        = json_list(<<app_name \o "." \o model_name \o ".svc:" \o str(SerfLanPort)>>)
                  /\ ~InLog("list_pods")

\* The leader of the legacy charm published the address of the one node.
C26_Witness ==
    /\ variant = "legacy"
    /\ hook = "_configure"
    /\ leader
    /\ InLog("publish")
    /\ config.expose = PyTrue
    /\ config.serflan_node_port = 30501
    /\ \E r \in rels :
          /\ databag[r]["datacenter"] = "dc1"
          /\ databag[r]["server_join_addresses"] = "[\"10.10.0.10:30501\"]"

(***************************************************************************)
(* Requests on a relation and the reconcile cycle.                         *)
(***************************************************************************)
\* C27: a relation-changed / endpoints-request event is handled by the
\* reconcile loop: with the workload unreachable it writes no databag and
\* sets Waiting, and it publishes only when the configuration file and the
\* layer of the workload are those of the current cycle.
C27_RequestsReconcile ==
    [][hook' = "relation_changed"
       => /\ ~can_connect
             => /\ databag' = databag
                /\ status'.unit = WaitingStatus("Waiting for Pebble ready")
          /\ (\E i \in DOMAIN log' : log'[i] = "publish")
             => /\ can_connect
                /\ _running_consul_config' = consul_config'
                /\ plan' = _pebble_layer.services]_vars

\* C28: Blocked is terminal until resolved: a reconcile cycle that finds the
\* unit Blocked by a restart failure sets it Active only if it has restarted
\* the consul service and the restart succeeded.
C28_BlockedUntilRestart ==
    [][(/\ status.unit.name = "blocked"
        /\ hook' = "_configure"
        /\ status'.unit = ActiveStatus)
       => /\ \E i \in DOMAIN log' : log'[i] = "restart"
          /\ \A i \in DOMAIN log' : log'[i] \notin ChangeErrors]_vars

(***************************************************************************)
(* The join target of the server itself.                                   *)
(***************************************************************************)
\* C29: the retry_join list of the configuration file is always the
\* internal join address list ["<app>.<model>.svc:<serf_lan port>"], in
\* every exposure mode: the file a cycle writes carries the port resolved in
\* that cycle, and a file on disk carries the port of some configuration;
\* host-IP addresses are never in the file.
C29_RetryJoinIsInternal ==
    disk.fmt # "absent"
    => /\ \E c \in ConfigsOf(variant) \cup {DefaultConfig} :
             json_loads(disk).retry_join
                = <<app_name \o "." \o model_name \o ".svc:" \o str(get_consul_ports(c).serf_lan)>>
       /\ (hook = "_configure" /\ InLog("push"))
          => json_loads(disk).retry_join
                = <<app_name \o "." \o model_name \o ".svc:" \o str(self_ports.serf_lan)>>

\* Under nodeport the leader wrote the file and published the node address.
C29_Witness ==
    /\ hook = "_configure"
    /\ InLog("push")
    /\ InLog("list_pods")
    /\ InLog("publish")
    /\ leader
    /\ config.expose = "nodeport"
    /\ config.serflan_node_port = 30000
    /\ json_loads(disk).retry_join = <<"consul-k8s.test-model.svc:30000">>
    /\ \E r \in rels : databag[r]["external_gossip_endpoints"] = "[\"10.10.0.10:30000\"]"

(***************************************************************************)
(* Publication to several related applications.                           *)
(***************************************************************************)
\* juju integrate: one more application is related on consul-cluster.
AddAnotherRelation ==
    /\ Cardinality(rels) < MaxRelIds
    /\ rels' = rels \cup {Cardinality(rels) + 1}
    /\ EnvStep
    /\ UNCHANGED <<variant, app_name, model_name, config, nchanges,
                   planned_units, leader, can_connect, disk, plan, status,
                   unit_ports, databag, k8s_service>>

InitPublish ==
    /\ variant \in Variants
    /\ app_name \in AppNames
    /\ model_name \in ModelNames
    /\ config = DefaultConfig
    /\ nchanges = 0
    /\ planned_units = 1
    /\ leader \in BOOLEAN
    /\ can_connect \in BOOLEAN
    /\ disk = NoFile
    /\ plan = EmptyDict
    /\ status = [unit |-> MaintenanceStatus, app |-> UnknownStatus]
    /\ unit_ports = {}
    /\ rels = {}
    /\ databag = [r \in RelIds |-> EmptyBag]
    /\ k8s_service = NoService
    /\ hook = "none"
    /\ log = <<>>
    /\ InitExt

\* The configurations set here: another datacenter, or exposure enabled.
PublishConfigs ==
    {c \in ConfigsOf(variant) :
        \/ c.expose = PyNone
        \/ c.expose \in {"nodeport", PyTrue} /\ c.serflan_node_port \in {30000, 30501}}

NextPublish ==
    \/ \E c \in PublishConfigs : SetConfig(c)
    \/ AddAnotherRelation
    \/ ConfigureHook
    \/ \E r \in RelIds : RelationChanged(r)

SpecPublish == InitPublish /\ [][NextPublish]_vars

\* C30: when the leader answers a request on a relation, only the app
\* databag of that relation is written and every other databag is unchanged;
\* when a reconcile cycle of the leader publishes, the app databag of every
\* relation is set to the current endpoint set, so that all related
\* applications hold the same, current, datacenter and addresses.
C30_PublicationFrame ==
    [][leader
       => /\ hook' = "relation_changed"
             => \E r \in rels :
                   /\ \A o \in RelIds \ {r} : databag'[o] = databag[o]
                   /\ databag'[r]["datacenter"] = config.datacenter
          /\ (hook' = "_configure" /\ \E i \in DOMAIN log' : log'[i] = "publish")
             => /\ \A r \in rels :
                      /\ databag'[r]["datacenter"] = config.datacenter
                      /\ IF variant = "split"
                         THEN databag'[r]["internal_gossip_endpoints"]
                                 = json_list(<<host_port(svc_dns(app_name, model_name), self_ports.serf_lan)>>)
                         ELSE databag'[r]["server_join_addresses"] # Absent
                /\ \A r1, r2 \in rels : databag'[r1] = databag'[r2]
                /\ \A o \in RelIds \ rels : databag'[o] = databag[o]]_vars

\* The leader answered a request on one of two relations after the
\* datacenter had changed: the other relation still holds the old one.
C30_Witness ==
    /\ hook = "relation_changed"
    /\ leader
    /\ \E r1, r2 \in rels :
          /\ databag[r1]["datacenter"] = "test-dc"
          /\ databag[r1]["datacenter"] = config.datacenter
          /\ databag[r2]["datacenter"] = "dc1"

(***************************************************************************)
(* The persisted configuration document when it is damaged.                *)
(***************************************************************************)
\* The configuration file of the workload becomes unreadable or is
\* overwritten with text that is not JSON.
ConfigFileDamaged(file) ==
    /\ Change
    /\ can_connect
    /\ disk \notin {NoFile, file}
    /\ disk' = file
    /\ EnvStep
    /\ UNCHANGED <<variant, app_name, model_name, config, planned_units,
                   leader, can_connect, plan, status, unit_ports, rels,
                   databag, k8s_service>>

NextDisk ==
    \/ \E c \in ConfigsOf(variant) : SetConfig(c)
    \/ LeaderChange
    \/ WorkloadUp
    \/ \E f \in {UnreadableFile, CorruptFile} : ConfigFileDamaged(f)
    \/ ConfigureHook

SpecDisk == Init /\ [][NextDisk]_vars

\* C31: a reconcile cycle that finds the workload reachable and the
\* persisted document missing, unreadable or not parseable does not fail: it
\* writes the freshly built document and restarts the service.
C31_DamagedDocumentRewritten ==
    [][(/\ hook' = "_configure"
        /\ can_connect
        /\ disk.fmt \in {"absent", "unreadable", "corrupt"})
       => /\ \A i \in DOMAIN log' : log'[i] # "raise JSONDecodeError"
          /\ disk' = json_dumps(consul_config, dumps_indent)
          /\ \E i \in DOMAIN log' : log'[i] = "push"
          /\ \E i \in DOMAIN log' : log'[i] = "restart"]_vars

\* C32: application-scoped relation data has a single writer: a handler run
\* on a unit that is not the leader makes no write to the application
\* databag of the certificates relation and leaves it unchanged.
C32_SingleWriter ==
    [][(hook' # "none" /\ ~leader)
       => /\ cert_bag' = cert_bag
          /\ \A i \in DOMAIN log' : log'[i] # "relation.data[app].update"]_vars

\* The private key and its password are staged in the application databag.
KeyStaged == cert_bag["private_key"] # Absent /\ cert_bag["private_key_password"] # Absent

C34_ExternalFieldsFollowExposure ==
    (variant = "split" /\ leader /\ hook = "_configure" /\ InLog("publish"))
    => \A r \in rels :
          /\ config.expose \in DisabledExposeValues
             => databag[r]["external_gossip_endpoints"] = json_null
          /\ config.expose \in {"nodeport", "loadbalancer"}
             => \E q \in PodQueries :
                   databag[r]["external_gossip_endpoints"]
                      = json_list([i \in 1..Len(q.ips) |->
                                      host_port(q.ips[i], config.serflan_node_port)])
          /\ databag[r]["external_http_endpoint"] = json_null

\* C35: on the requirer, while the relation exists and the provider's
\* application databag is empty, a relation-changed event emits no
\* config_changed, and the datacenter and server_join_addresses properties
\* are None, not a placeholder value.
C35_EmptyDatabagIsNoConfig ==
    \A r \in rels :
        databag[r] = EmptyBag
        => /\ hook = "relation_changed" => log = <<>>
           /\ call.fn = "properties"
              => /\ call.ret.datacenter = None
                 /\ call.ret.server_join_addresses = None

(***************************************************************************)
(* The reconcile loop under fair scheduling.  Juju delivers the triggers:  *)
(* config-changed after a configuration change, pebble-ready when the      *)
(* workload container comes up, upgrade-charm, and update-status           *)
(* periodically re-dispatches the charm.  The container goes down a        *)
(* bounded number of times and Kubernetes brings it back.  The outcome of  *)
(* a restart is left open: it may fail every time.                         *)
(***************************************************************************)
NextLive ==
    \/ \E c \in ConfigsOf(variant) : SetConfig(c)
    \/ LeaderChange
    \/ WorkloadDown
    \/ WorkloadUp
    \/ ConfigureHook

SpecLive ==
    /\ Init
    /\ [][NextLive]_vars
    /\ WF_vars(ConfigureHook)
    /\ WF_vars(WorkloadUp)

C37_Convergence ==
    /\ []((hook = "_configure" /\ InLog("status:active"))
          => /\ disk.fmt = "json"
             /\ json_loads(disk) = consul_config
             /\ plan = _pebble_layer.services)
    /\ [][(hook' = "_configure" /\ \E i \in DOMAIN log' : log'[i] = "push")
          => _running_consul_config # consul_config]_vars

\* A cycle after a change of datacenter found the document of the previous
\* cycle on disk, wrote nothing and set Active.
C37_Witness ==
    /\ hook = "_configure"
    /\ InLog("status:active")
    /\ ~InLog("push")
    /\ config.datacenter = "test-dc"
    /\ json_loads(disk).datacenter = "test-dc"
    /\ plan = _pebble_layer.services

(***************************************************************************)
(* The provider and the requirer of the legacy interface on one relation:  *)
(* a unit of the provider calls set_cluster_config, the requirer reads its *)
(* properties.  `leader` is the leadership of the providing unit, `prev`   *)
(* keeps the last call of set_cluster_config and `call` the last read.     *)
(***************************************************************************)
DatacenterStrings == Datacenters \cup {""}

\* ConsulConfigProvider.set_cluster_config(relation, datacenter, addresses)
SetClusterConfig(relation, datacenter, addresses) ==
    /\ rels # {}
    /\ relation.some => relation.v \in rels
    /\ databag' = set_cluster_config(relation, datacenter, addresses)
    /\ prev' = [fn |-> "set_cluster_config",
                args |-> [datacenter |-> datacenter,
                          server_join_addresses |-> addresses],
                leader |-> leader]
    /\ call' = NoCall
    /\ hook' = "none" /\ log' = <<>>
    /\ UNCHANGED <<variant, app_name, model_name, config, nchanges,
                   planned_units, leader, can_connect, disk, plan, status,
                   unit_ports, rels, k8s_service, lb_vars, cert_vars>>

NextRoundTrip ==
    \/ \E r \in RelIds : RequirerRelationCreated(r)
    \/ LeaderChange
    \/ \E relation \in {None} \cup {Some(r) : r \in RelIds}, dc \in DatacenterStrings, a \in AddressLists :
          SetClusterConfig(relation, dc, a)
    \/ ReadProperties

SpecRoundTrip == InitRequirer /\ [][NextRoundTrip]_vars

\* C38: what the leader of the provider last wrote with set_cluster_config,
\* for every datacenter string and every list of address strings, is what
\* the requirer's datacenter and server_join_addresses properties return:
\* the same string and the same list in the same order.
C38_PayloadRoundTrip ==
    (call.fn = "properties" /\ prev.fn = "set_cluster_config" /\ prev.leader)
    => /\ call.ret.datacenter = Some(prev.args.datacenter)
       /\ call.ret.server_join_addresses = Some(prev.args.server_join_addresses)

(***************************************************************************)
(* The TLS paths of the rendered configuration and the certificate files.  *)
(***************************************************************************)
\* The documents the builder renders for the current inputs: with the paths
\* the charm passes and with none passed.
RenderedConfigs ==
    {consul_config,
     build(self_ports, config.datacenter, planned_units,
           _get_internal_join_addresses, None)}

\* C39: when certificate-available has written its three files, the ca_file,
\* cert_file and key_file of the rendered configuration, built with the
\* charm's tls paths or with none, are the paths of the files that hold the
\* CA, the certificate and the private key.
C39_TlsPathsAreWrittenPaths ==
    (hook = "certificate_available" /\ status.unit = ActiveStatus /\ Len(log) = 3)
    => \A doc \in RenderedConfigs :
          /\ {doc.tls.defaults.ca_file, doc.tls.defaults.cert_file,
              doc.tls.defaults.key_file} \subseteq DOMAIN cert_files
          /\ cert_files[doc.tls.defaults.ca_file] = call.args.ca
          /\ cert_files[doc.tls.defaults.cert_file] = call.args.certificate
          /\ cert_files[doc.tls.defaults.key_file] = cert_bag["private_key"]

\* The leader received certificate-2 with the second key staged and wrote
\* the three files.
C39_Witness ==
    /\ hook = "certificate_available"
    /\ log = <<"push " \o cert_file, "push " \o key_file, "push " \o ca_file>>
    /\ call.args.certificate = "certificate-2"
    /\ cert_bag["private_key"] = "private-key-2"
    /\ cert_files[key_file] = "private-key-2"
    /\ consul_config.tls.defaults.key_file = key_file

(***************************************************************************)
(* The cache of get_loadbalancer_ip.                                       *)
(***************************************************************************)
\* C40: once a handler has answered get_loadbalancer_ip, every later call on
\* it in the same hook returns the value of the first call, a None that
\* came from an API error or a missing ingress included, does not query the
\* API, and leaves the cached value as it is.
C40_LookupCachedForHook ==
    [][(lb_cache.cached /\ call'.fn = "get_loadbalancer_ip")
       => /\ call'.cached
          /\ call'.ret = lb_cache.value
          /\ ~call'.queried
          /\ lb_cache' = lb_cache]_vars

\* The first call of a LoadBalancer handler met an API error and returned
\* None; the API has since recovered and lists an address, and a later call
\* in the same hook still returns None without querying.
C40_Witness ==
    /\ call.fn = "get_loadbalancer_ip"
    /\ call.cached
    /\ ~call.queried
    /\ call.ret = None
    /\ call.answer = ApiError
    /\ handler_type = "LoadBalancer"
    /\ HasIngress(api)
    /\ FirstIngress(api) = Some([ip |-> Some("203.0.113.10")])

====
